---- MODULE Spec2Model ----
(***************************************************************************)
(* Octree of OpenCAMlib's cutting simulation (src/cutsim/octree.cpp).      *)
(*                                                                         *)
(* Nodes live in a heap `tree` indexed by pointers; pointer 0 is the null  *)
(* pointer.  Octree::diff_negative is recursive: its call stack is the     *)
(* variable `stack`, one frame per active call.  assert() is enabled in    *)
(* the build (NDEBUG is commented out, octree.cpp:23-25): a failing        *)
(* assertion aborts the program and is recorded in `failed`.               *)
(*                                                                         *)
(* Octnode (octnode.cpp), OCTVolume and Bbox (volume.cpp) are not part of  *)
(* the sources at hand; Octnode, subdivide, evaluate, overlaps and the     *)
(* volumes are written from the design document.                           *)
(***************************************************************************)
EXTENDS Integers, Sequences, FiniteSets, TLC

\* ------------------------------------------------------------------ bounds
MaxNodeDepth == 2     \* init(n) is not called once it would create nodes deeper than this
MaxNodes == 73        \* init(n) is not called once it would grow the heap beyond this
MaxDiffs == 2         \* number of diff_negative_root calls in one run

\* ------------------------------------------------------------ pointers
Null == 0
Root == 1
Slots == 0..7

\* address of the node that subdivide() allocates for slot m of node p
ChildPtr(p, m) == 8 * p + m

RECURSIVE Pow2(_)
Pow2(k) == IF k = 0 THEN 1 ELSE 2 * Pow2(k - 1)

\* ------------------------------------------------------------ geometry
Add(a, b) == <<a[1] + b[1], a[2] + b[2], a[3] + b[3]>>
Sub(a, b) == <<a[1] - b[1], a[2] - b[2], a[3] - b[3]>>
Splat(k) == <<k, k, k>>
Abs(x) == IF x < 0 THEN -x ELSE x
Max2(a, b) == IF a < b THEN b ELSE a

\* Bbox: axis-aligned box [lo, hi]
Bbox(lo, hi) == [lo |-> lo, hi |-> hi]

\* Bbox::overlaps: the closed boxes share a point
Overlaps(a, b) ==
    \A i \in 1..3 : ~(a.hi[i] < b.lo[i] \/ a.lo[i] > b.hi[i])

\* direction of octant idx from the centre of its parent
Direction(idx) ==
    << IF idx % 2 = 1 THEN 1 ELSE -1,
       IF (idx \div 2) % 2 = 1 THEN 1 ELSE -1,
       IF (idx \div 4) % 2 = 1 THEN 1 ELSE -1 >>

\* ------------------------------------------------------------ Octnode
\* Octnode(parent, idx, scale, depth): a fresh leaf, unclassified
Octnode(parent, idx, scale, depth, center) ==
    [ parent     |-> parent,
      idx        |-> idx,
      scale      |-> scale,
      depth      |-> depth,
      center     |-> center,
      childcount |-> 0,
      child      |-> [m \in Slots |-> Null],
      inside     |-> FALSE,
      outside    |-> FALSE ]

\* the cube of a node: centre +/- scale on every axis
NodeBB(n) == Bbox(Sub(n.center, Splat(n.scale)), Add(n.center, Splat(n.scale)))

\* OCTVolume: a box (kind "box", half-widths r) or an octahedron
\* (kind "octa", the points at 1-norm distance <= r[1] from c);
\* bb is the bounding box of either
VolBB(v) == Bbox(Sub(v.c, v.r), Add(v.c, v.r))

\* the whole cube of n lies in v
CubeInside(n, v) ==
    LET b == NodeBB(n) IN
    IF v.kind = "box"
    THEN \A i \in 1..3 : VolBB(v).lo[i] <= b.lo[i] /\ b.hi[i] <= VolBB(v).hi[i]
    ELSE LET far(i) == Max2(Abs(b.lo[i] - v.c[i]), Abs(b.hi[i] - v.c[i]))
         IN  far(1) + far(2) + far(3) <= v.r[1]

\* CubeOutside that only looks for corners of the cube strictly inside v
CubeOutside_Strict(n, v) ==
    LET b == NodeBB(n) IN
    IF v.kind = "box"
    THEN \E i \in 1..3 : VolBB(v).lo[i] >= b.lo[i] \/ b.hi[i] >= VolBB(v).hi[i]
    ELSE LET near(i) == IF Abs(b.lo[i] - v.c[i]) < Abs(b.hi[i] - v.c[i])
                        THEN Abs(b.lo[i] - v.c[i]) ELSE Abs(b.hi[i] - v.c[i])
         IN  near(1) + near(2) + near(3) >= v.r[1]

\* the cube of n and v share no point
CubeOutside(n, v) ==
    LET b == NodeBB(n) IN
    IF v.kind = "box"
    THEN ~Overlaps(b, VolBB(v))
    ELSE LET gap(i) == Max2(0, Max2(b.lo[i] - v.c[i], v.c[i] - b.hi[i]))
         IN  gap(1) + gap(2) + gap(3) > v.r[1]

\* Octnode::evaluate(vol): overwrite the inside/outside flags of node p
Evaluate(t, p, v) ==
    [t EXCEPT ![p].inside  = CubeInside(t[p], v),
              ![p].outside = CubeOutside(t[p], v)]

\* the child that subdivide() of node n (at address p) creates in slot m
SubdivideChild(n, p, m) ==
    LET half == n.scale \div 2 IN
    Octnode(p, m, half, n.depth + 1,
            Add(n.center, <<half * Direction(m)[1],
                            half * Direction(m)[2],
                            half * Direction(m)[3]>>))

\* Octnode::subdivide() on every node of the set ps: eight children each,
\* one per octant, and childcount = 8
SubdivideSet(t, ps) ==
    [q \in DOMAIN t \cup {ChildPtr(p, m) : p \in ps, m \in Slots} |->
        IF q \in DOMAIN t /\ q \notin ps THEN t[q]
        ELSE IF q \in ps
        THEN [t[q] EXCEPT !.childcount = 8,
                          !.child = [m \in Slots |-> ChildPtr(q, m)]]
        ELSE SubdivideChild(t[q \div 8], q \div 8, q % 8)] @@ <<>>

\* Octnode::subdivide() on node p
Subdivide(t, p) == SubdivideSet(t, {p})

\* ------------------------------------------------------------ inputs
\* constructor arguments (scale, centre); max_depth is drawn separately
Configs ==
    { [scale |-> Pow2(MaxNodeDepth + 1), center |-> <<0, 0, 0>>],
      [scale |-> 5 * Pow2(MaxNodeDepth), center |-> <<4, -4, 0>>] }
MaxDepths == {1, 2}

\* cutting volumes, placed relative to the root cube (centre c, half-width s)
VolumesFor(c, s) ==
    LET h == s \div 2
        q == s \div 4
    IN  { [name |-> "all",    kind |-> "box",  c |-> c, r |-> Splat(2 * s)],
          [name |-> "miss",   kind |-> "box",  c |-> Add(c, <<4 * s, 0, 0>>), r |-> Splat(s)],
          [name |-> "lowx",   kind |-> "box",  c |-> Sub(c, <<2 * s, 0, 0>>), r |-> Splat(2 * s)],
          [name |-> "highx",  kind |-> "box",  c |-> Add(c, <<2 * s, 0, 0>>), r |-> Splat(2 * s)],
          [name |-> "octant", kind |-> "box",  c |-> Sub(c, Splat(h)), r |-> Splat(h)],
          [name |-> "inner",  kind |-> "box",  c |-> Add(c, Splat(h)), r |-> Splat(q)],
          [name |-> "octa",   kind |-> "octa", c |-> Sub(c, Splat(s)), r |-> Splat(2 * s)] }
NoVolume == [name |-> "none", kind |-> "box", c |-> <<0, 0, 0>>, r |-> <<0, 0, 0>>]

\* ------------------------------------------------------------ state
VARIABLES
    root_scale,   \* Octree::root_scale
    max_depth,    \* Octree::max_depth
    tree,         \* the heap: pointer -> Octnode, for every allocated node
    vol,          \* argument of the running diff_negative_root call
    stack,        \* call stack of diff_negative: frames [node, pc, m]
    failed,       \* "none", or the assertion that aborted the program
    nodelist,     \* output vector of the last get_leaf_nodes call
    ndiffs,       \* number of diff_negative_root calls so far
    \* history, not program state
    pre,          \* the heap when the last operation started
    lastOp,       \* the last operation: [kind, n, start, prior]
    collapsed,    \* nodes whose childcount dropped to 0 in the last diff
    freed,        \* released pointers not allocated again since
    exhausted,    \* <<leaf, childcount of its parent>> for every ambiguous leaf
                  \* the last diff found too deep to subdivide
    result,       \* what the last str() or leaf_scale() call returned
    \* the order of the loops over child slots, and the tree to compare with
    order,        \* <<slots for nodes of even depth, slots for odd depth>>
    ref           \* the heap the last diff left, while it is run again

vars == <<root_scale, max_depth, tree, vol, stack, failed, nodelist, ndiffs,
          pre, lastOp, collapsed, freed, exhausted, result, order, ref>>

Op(kind, n, start, prior) == [kind |-> kind, n |-> n, start |-> start, prior |-> prior]

Idle == stack = <<>> /\ failed = "none"

\* no report: total leaf count, per-depth table, increments that fell outside
\* the table, leaf scale
NoResult == [total |-> 0, nodelevel |-> <<>>, oob |-> 0, scale |-> 0]

\* for (int m = 0; m < 8; ++m): loop index m is slot m, at every depth
SlotOrder == [i \in 1..8 |-> i - 1]
IdOrder == <<SlotOrder, SlotOrder>>
NoRef == <<>>

\* the slot the loop over the children of current takes at loop index i
SlotAt(t, current, i) == order[(t[current].depth % 2) + 1][i + 1]

\* ------------------------------------------------------------ traversal
\* the leaves that Octree::get_leaf_nodes(current, ..) pushes, in push order
RECURSIVE LeafSeq(_, _)
RECURSIVE LeafSeqFrom(_, _, _)
LeafSeq(t, current) ==
    IF t[current].childcount = 0
    THEN <<current>>
    ELSE LeafSeqFrom(t, current, 0)
\* LeafSeqFrom whose loop stops one slot early
RECURSIVE LeafSeqFrom_Short(_, _, _)
LeafSeqFrom_Short(t, current, n) ==
    IF n >= 7 THEN <<>>
    ELSE (IF t[current].child[n] # Null
          THEN LeafSeq(t, t[current].child[n])
          ELSE <<>>) \o LeafSeqFrom_Short(t, current, n + 1)

\* the pushes of the for loop of get_leaf_nodes from slot n on
LeafSeqFrom(t, current, n) ==
    IF n = 8 THEN <<>>
    ELSE (IF t[current].child[n] # Null
          THEN LeafSeq(t, t[current].child[n])
          ELSE <<>>) \o LeafSeqFrom(t, current, n + 1)

\* Octree::get_leaf_nodes(current, nodelist): nodelist after the call
get_leaf_nodes(t, current, list) == list \o LeafSeq(t, current)

SeqToSet(s) == {s[i] : i \in 1..Len(s)}

\* ------------------------------------------------------------ init
\* InitRound that leaves the leaves classified inside or outside alone
InitRound_SkipClassified(t) ==
    SubdivideSet(t, {p \in SeqToSet(get_leaf_nodes(t, Root, <<>>)) :
                        ~t[p].inside /\ ~t[p].outside})

\* one round of Octree::init: subdivide every node that get_leaf_nodes lists
InitRound(t) == SubdivideSet(t, SeqToSet(get_leaf_nodes(t, Root, <<>>)))

RECURSIVE InitRounds(_, _)
InitRounds(t, n) ==
    IF n = 0 THEN t
    ELSE InitRounds(InitRound(t), n - 1)

MaxLeafDepth(t) ==
    LET ds == {t[p].depth : p \in {q \in DOMAIN t : t[q].childcount = 0}}
    IN  CHOOSE d \in ds : \A e \in ds : e <= d

\* ------------------------------------------------------------ actions
\* Octree::Octree(scale, depth, centerp)
Init ==
    \E cfg \in Configs, d \in MaxDepths :
        /\ root_scale = cfg.scale
        /\ max_depth = d
        /\ tree = (Root :> Octnode(Null, 0, cfg.scale, 0, cfg.center))
        /\ vol = NoVolume
        /\ stack = <<>>
        /\ failed = "none"
        /\ nodelist = <<>>
        /\ ndiffs = 0
        /\ pre = (Root :> Octnode(Null, 0, cfg.scale, 0, cfg.center))
        /\ lastOp = Op("construct", 0, Null, <<>>)
        /\ collapsed = {}
        /\ freed = {}
        /\ exhausted = {}
        /\ result = NoResult
        /\ order = IdOrder
        /\ ref = NoRef

\* Octree::init(n)
InitN(n) ==
    /\ Idle
    /\ MaxLeafDepth(tree) + n <= MaxNodeDepth
    /\ Cardinality(DOMAIN InitRounds(tree, n)) <= MaxNodes
    /\ tree' = InitRounds(tree, n)
    /\ pre' = tree
    /\ lastOp' = Op("init", n, Null, <<>>)
    /\ freed' = freed \ DOMAIN tree'
    /\ nodelist' = <<>>
    /\ collapsed' = {}
    /\ exhausted' = {}
    /\ result' = NoResult
    /\ order' = IdOrder
    /\ ref' = NoRef
    /\ UNCHANGED <<root_scale, max_depth, vol, stack, failed, ndiffs>>

\* Octree::get_leaf_nodes(start, nodelist) called with a nodelist holding prior
GetLeafNodes(start, prior) ==
    /\ Idle
    /\ nodelist' = get_leaf_nodes(tree, start, prior)
    /\ pre' = tree
    /\ lastOp' = Op("leaves", 0, start, prior)
    /\ collapsed' = {}
    /\ exhausted' = {}
    /\ result' = NoResult
    /\ order' = IdOrder
    /\ ref' = NoRef
    /\ UNCHANGED <<root_scale, max_depth, tree, vol, stack, failed, ndiffs, freed>>

\* Octree::diff_negative_root(vol): call diff_negative(root, vol)
DiffNegativeRoot(v) ==
    /\ Idle
    /\ ndiffs < MaxDiffs
    /\ vol' = v
    /\ stack' = <<[node |-> Root, pc |-> "enter", m |-> 0]>>
    /\ ndiffs' = ndiffs + 1
    /\ pre' = tree
    /\ lastOp' = Op("diff", 0, Null, <<>>)
    /\ collapsed' = {}
    /\ exhausted' = {}
    /\ result' = NoResult
    /\ order' = IdOrder
    /\ ref' = NoRef
    /\ nodelist' = <<>>
    /\ UNCHANGED <<root_scale, max_depth, tree, failed, freed>>

Top == stack[Len(stack)]
Pop == SubSeq(stack, 1, Len(stack) - 1)
SetTop(f) == [stack EXCEPT ![Len(stack)] = f]

\* RemoveChild without the decrement of childcount
RemoveChild_NoDecrement(t, parent, i) ==
    LET victim == t[parent].child[i]
        t2 == [t EXCEPT ![parent].child[i] = Null]
    IN  [q \in DOMAIN t \ {victim} |-> t2[q]] @@ <<>>

\* RemoveChild that leaves the released pointer in the slot
RemoveChild_Dangling(t, parent, i) ==
    LET victim == t[parent].child[i]
        t2 == [t EXCEPT ![parent].childcount = @ - 1]
    IN  [q \in DOMAIN t \ {victim} |-> t2[q]] @@ <<>>

\* delete parent->child[i]; parent->child[i] = 0; --parent->childcount
RemoveChild(t, parent, i) ==
    LET victim == t[parent].child[i]
        t2 == [t EXCEPT ![parent].child[i] = Null, ![parent].childcount = @ - 1]
    IN  [q \in DOMAIN t \ {victim} |-> t2[q]] @@ <<>>

\* CollapseParent that goes on to detach the parent from its own parent
CollapseParent_Recursive(t, parent, v) ==
    LET t2 == Evaluate(t, parent, v)
        g == t2[parent].parent
    IN  IF t2[parent].inside /\ g # Null
        THEN [t2 EXCEPT ![g].child[t2[parent].idx] = Null, ![g].childcount = @ - 1]
        ELSE t2

\* the parent has become a leaf: parent->evaluate( vol )
CollapseParent(t, parent, v) == Evaluate(t, parent, v)

\* CanSubdivide that still lets a node at max_depth subdivide
CanSubdivide_Inclusive(t, current, md) == t[current].depth <= md

\* current->depth < max_depth: the node may still be subdivided
CanSubdivide(t, current, md) == t[current].depth < md

\* DeleteIndex that names the slot after the one of current
DeleteIndex_Next(t, current) == (t[current].idx + 1) % 8

\* int delete_index = current->idx
DeleteIndex(t, current) == t[current].idx

\* diff_negative(current, vol) up to its loops: evaluate, then the leaf cases
DiffNegativeEnter ==
    /\ stack # <<>>
    /\ failed = "none"
    /\ Top.pc = "enter"
    /\ LET current == Top.node
           t1 == Evaluate(tree, current, vol)
           parent == t1[current].parent
       IN
       IF t1[current].childcount = 0
       THEN IF t1[current].inside
            THEN IF parent = Null
                 THEN \* assert( parent ) fails
                      /\ failed' = "parent"
                      /\ tree' = t1
                      /\ UNCHANGED <<stack, collapsed, freed, exhausted>>
                 ELSE LET delete_index == DeleteIndex(t1, current)
                          victim == t1[parent].child[delete_index]
                          t2 == RemoveChild(t1, parent, delete_index)
                          t3 == CollapseParent(t2, parent, vol)
                      IN
                      IF t2[parent].childcount \notin 0..8
                      THEN /\ failed' = "childcount"
                           /\ tree' = t2
                           /\ freed' = freed \cup ({victim} \ {Null})
                           /\ UNCHANGED <<stack, collapsed, exhausted>>
                      ELSE IF t2[parent].childcount = 0
                      THEN /\ tree' = t3
                           /\ freed' = freed \cup ({victim} \ {Null})
                           /\ collapsed' = collapsed \cup {parent}
                           /\ UNCHANGED exhausted
                           /\ IF t3[parent].inside
                              THEN stack' = Pop /\ UNCHANGED failed
                              ELSE failed' = "parent->inside" /\ UNCHANGED stack
                      ELSE /\ tree' = t2
                           /\ freed' = freed \cup ({victim} \ {Null})
                           /\ stack' = Pop
                           /\ UNCHANGED <<failed, collapsed, exhausted>>
            ELSE IF t1[current].outside
            THEN /\ tree' = t1
                 /\ stack' = Pop
                 /\ UNCHANGED <<failed, collapsed, freed, exhausted>>
            ELSE IF CanSubdivide(t1, current, max_depth)
            THEN LET t2 == Subdivide(t1, current) IN
                 /\ tree' = t2
                 /\ freed' = freed \ DOMAIN t2
                 /\ IF t2[current].childcount = 8
                    THEN stack' = SetTop([Top EXCEPT !.pc = "subloop", !.m = 0])
                         /\ UNCHANGED failed
                    ELSE failed' = "childcount == 8" /\ UNCHANGED stack
                 /\ UNCHANGED <<collapsed, exhausted>>
            ELSE \* max depth reached, can't subdivide
                 /\ tree' = t1
                 /\ stack' = Pop
                 /\ exhausted' = exhausted \cup
                       {<<current, IF parent = Null THEN 0 ELSE t1[parent].childcount>>}
                 /\ UNCHANGED <<failed, collapsed, freed>>
       ELSE /\ tree' = t1
            /\ stack' = SetTop([Top EXCEPT !.pc = "loop", !.m = 0])
            /\ UNCHANGED <<failed, collapsed, freed, exhausted>>
    /\ UNCHANGED <<root_scale, max_depth, vol, nodelist, ndiffs, pre, lastOp,
                   result, order, ref>>

\* Visits without the bounding-box test
Visits_NoPruning(t, current, m, v) ==
    t[current].child[m] # Null

\* the child of current in slot m is to be visited
Visits(t, current, m, v) ==
    /\ t[current].child[m] # Null
    /\ Overlaps(VolBB(v), NodeBB(t[t[current].child[m]]))

\* NextVisit whose loop starts one slot late
NextVisit_SkipFirst(t, current, m, v) ==
    LET ms == {k \in (m + 1)..7 : Visits(t, current, SlotAt(t, current, k), v)}
    IN  IF ms = {} THEN 8 ELSE CHOOSE k \in ms : \A j \in ms : k <= j

\* NextVisit whose loop ends at the first slot that holds no child
NextVisit_StopAtNull(t, current, m, v) ==
    LET ms == {k \in m..7 :
                 /\ Visits(t, current, SlotAt(t, current, k), v)
                 /\ \A j \in m..k : t[current].child[SlotAt(t, current, j)] # Null}
    IN  IF ms = {} THEN 8 ELSE CHOOSE k \in ms : \A j \in ms : k <= j

\* first loop index from m on whose child is visited, 8 when there is none
NextVisit(t, current, m, v) ==
    LET ms == {k \in m..7 : Visits(t, current, SlotAt(t, current, k), v)}
    IN  IF ms = {} THEN 8 ELSE CHOOSE k \in ms : \A j \in ms : k <= j

\* the for loop over the children of an internal node, up to its next call
DiffNegativeLoop ==
    /\ stack # <<>>
    /\ failed = "none"
    /\ Top.pc = "loop"
    /\ LET current == Top.node
           k == NextVisit(tree, current, Top.m, vol)
       IN  IF k = 8
           THEN stack' = Pop
           ELSE stack' = Append(SetTop([Top EXCEPT !.m = k + 1]),
                                [node |-> tree[current].child[SlotAt(tree, current, k)],
                                 pc |-> "enter", m |-> 0])
    /\ UNCHANGED <<root_scale, max_depth, tree, vol, failed, nodelist, ndiffs,
                   pre, lastOp, collapsed, freed, exhausted, result, order, ref>>

\* the for loop over the children of a node just subdivided, up to its next call
DiffNegativeSubLoop ==
    /\ stack # <<>>
    /\ failed = "none"
    /\ Top.pc = "subloop"
    /\ LET current == Top.node
           k == NextVisit(tree, current, Top.m, vol)
           last == IF k = 8 THEN 7 ELSE k
       IN  IF \E j \in Top.m..last : tree[current].child[SlotAt(tree, current, j)] = Null
           THEN \* assert(current->child[m]) fails
                failed' = "child[m]" /\ UNCHANGED stack
           ELSE /\ UNCHANGED failed
                /\ IF k = 8
                   THEN stack' = Pop
                   ELSE stack' = Append(SetTop([Top EXCEPT !.m = k + 1]),
                                   [node |-> tree[current].child[SlotAt(tree, current, k)],
                                    pc |-> "enter", m |-> 0])
    /\ UNCHANGED <<root_scale, max_depth, tree, vol, nodelist, ndiffs,
                   pre, lastOp, collapsed, freed, exhausted, result, order, ref>>

\* leaf_scale whose numerator is root_scale
leaf_scale_Half(rs, md) == rs \div Pow2(md)

\* (2.0*root_scale) / pow(2.0, (int)max_depth); the scales of Configs keep
\* the quotient whole, as a power-of-two divisor keeps it exact in a double
leaf_scale(rs, md) == (2 * rs) \div Pow2(md)

\* Octree::leaf_scale()
LeafScale ==
    /\ Idle
    /\ result' = [NoResult EXCEPT !.scale = leaf_scale(root_scale, max_depth)]
    /\ pre' = tree
    /\ lastOp' = Op("leaf_scale", 0, Null, <<>>)
    /\ nodelist' = <<>>
    /\ collapsed' = {}
    /\ exhausted' = {}
    /\ order' = IdOrder
    /\ ref' = NoRef
    /\ UNCHANGED <<root_scale, max_depth, tree, vol, stack, failed, ndiffs, freed>>

\* std::vector<int> nodelevel(max_depth): the indices nodelevel has
NodeLevelIndices(md) == 0..(md - 1)

\* Octree::str(): count the leaves per depth in nodelevel and report the
\* size of the leaf list and the table. ++nodelevel[n->depth] with n->depth
\* outside the table is undefined: the write is lost on the report, which
\* keeps the counts of the table ("report"), or the program stops ("crash")
Str(outcome) ==
    /\ Idle
    /\ \E leaves \in {get_leaf_nodes(tree, Root, <<>>)} :
       LET at(d) == {i \in 1..Len(leaves) : tree[leaves[i]].depth = d}
           out == {i \in 1..Len(leaves) :
                     tree[leaves[i]].depth \notin NodeLevelIndices(max_depth)}
       IN  /\ outcome = "crash" => out # {}
           /\ IF outcome = "crash"
              THEN /\ failed' = "nodelevel[n->depth]"
                   /\ result' = NoResult
              ELSE /\ result' = [total |-> Len(leaves),
                                 nodelevel |-> [d \in NodeLevelIndices(max_depth) |->
                                                 Cardinality(at(d))],
                                 oob |-> Cardinality(out),
                                 scale |-> 0]
                   /\ UNCHANGED failed
    /\ pre' = tree
    /\ lastOp' = Op("str", 0, Null, <<>>)
    /\ nodelist' = <<>>
    /\ collapsed' = {}
    /\ exhausted' = {}
    /\ order' = IdOrder
    /\ ref' = NoRef
    /\ UNCHANGED <<root_scale, max_depth, tree, vol, stack, ndiffs, freed>>

Next ==
    \/ \E n \in 1..MaxNodeDepth : InitN(n)
    \/ \E v \in VolumesFor(tree[Root].center, root_scale) : DiffNegativeRoot(v)
    \/ \E start \in {p \in DOMAIN tree : p < 16}, prior \in {<<>>, <<Root>>} :
           GetLeafNodes(start, prior)
    \/ DiffNegativeEnter
    \/ DiffNegativeLoop
    \/ DiffNegativeSubLoop
    \/ LeafScale
    \/ \E outcome \in {"report", "crash"} : Str(outcome)

Spec == Init /\ [][Next]_vars

\* ------------------------------------------------------------ properties
Leaves(t) == {p \in DOMAIN t : t[p].childcount = 0}

\* the nodes reachable from p through child slots, p included
RECURSIVE Subtree(_, _)
Subtree(t, p) ==
    {p} \cup UNION {Subtree(t, t[p].child[m]) : m \in {k \in Slots : t[p].child[k] # Null}}

FreshTree(t) ==
    /\ DOMAIN t = {Root}
    /\ t[Root].childcount = 0
    /\ ~t[Root].inside /\ ~t[Root].outside

DiffDone == lastOp.kind = "diff" /\ stack = <<>> /\ failed = "none"

\* C1: the assertion parent->inside, made when the removal of an inside leaf
\* leaves its parent without children, never fails
C1_CollapseAssertion == failed # "parent->inside"

\* C2: on a fresh tree a diff with a volume that contains the root raises no
\* assertion and ends with the root as the only leaf, flagged inside
C2_FullCutCompletes ==
    (lastOp.kind = "diff" /\ FreshTree(pre) /\ CubeInside(pre[Root], vol))
        => /\ failed = "none"
           /\ Root \in DOMAIN tree
           /\ stack = <<>> => (Leaves(tree) = {Root} /\ tree[Root].inside)

\* the subtree of p is the same in the heaps t and u: same nodes, same fields
SubtreeSame(t, u, p) ==
    /\ p \in DOMAIN u
    /\ \A q \in Subtree(t, p) : q \in DOMAIN u /\ u[q] = t[q]
    /\ Subtree(u, p) = Subtree(t, p)

Pruned(p) == ~Overlaps(VolBB(vol), NodeBB(pre[p]))

\* C3 as claimed: during and after a diff, the subtree of every node (the
\* root included) whose bounding box misses the volume's is as it was before
C3_PruningWithRoot ==
    lastOp.kind = "diff" =>
        \A p \in DOMAIN pre : Pruned(p) => SubtreeSame(pre, tree, p)

\* C3 amended: that holds of every node but the root; when the root's box
\* misses the volume's, the heap is as before except for the root's own
\* flags, which the finished diff leaves at outside and not inside
C3_PruningBelowRoot ==
    lastOp.kind = "diff" =>
        /\ \A p \in DOMAIN pre \ {Root} : Pruned(p) => SubtreeSame(pre, tree, p)
        /\ Pruned(Root) =>
              /\ [tree EXCEPT ![Root].inside = pre[Root].inside,
                              ![Root].outside = pre[Root].outside] = pre
              /\ stack = <<>> => (tree[Root].outside /\ ~tree[Root].inside)

C3_Witness ==
    /\ DiffDone
    /\ tree # pre
    /\ \E p \in DOMAIN pre \ {Root} :
           Pruned(p) /\ pre[p].childcount = 8 /\ pre[p].outside

\* C4: no node is deeper than max_depth
C4_DepthBound == \A p \in DOMAIN tree : tree[p].depth <= max_depth

\* C5: in every state, the states inside a diff included, the childcount of
\* every node is the number of its non-null child slots and lies in 0..8
C5_ChildCount ==
    \A p \in DOMAIN tree :
        /\ tree[p].childcount = Cardinality({m \in Slots : tree[p].child[m] # Null})
        /\ tree[p].childcount \in 0..8

C5_Witness ==
    /\ stack # <<>>
    /\ \E p \in DOMAIN tree : tree[p].childcount \in 1..7
    /\ \E p \in DOMAIN tree \ DOMAIN pre : tree[p].childcount = 8

\* the ancestor of q that is k levels up, by parent pointers
RECURSIVE Ancestor(_, _, _)
Ancestor(t, q, k) == IF k = 0 THEN q ELSE Ancestor(t, t[q].parent, k - 1)

\* C6: init(n) turns every leaf, whatever its flags, into an internal node
\* with eight children and touches nothing else; after n rounds the leaves
\* are 8^n per former leaf, n levels below it, fresh, of scale / 2^n; on a
\* fresh tree that is 8^n leaves at depth n of half-width root_scale / 2^n
C6_UniformInit ==
    lastOp.kind = "init" =>
        LET n == lastOp.n IN
        /\ \A p \in DOMAIN pre :
              /\ p \in DOMAIN tree
              /\ IF p \in Leaves(pre)
                 THEN /\ tree[p].childcount = 8
                      /\ \A m \in Slots : tree[p].child[m] # Null
                      /\ [tree[p] EXCEPT !.childcount = 0,
                                         !.child = [m \in Slots |-> Null]] = pre[p]
                 ELSE tree[p] = pre[p]
        /\ Cardinality(Leaves(tree)) = Pow2(3 * n) * Cardinality(Leaves(pre))
        /\ \A q \in Leaves(tree) :
              /\ tree[q].depth >= n
              /\ Ancestor(tree, q, n) \in Leaves(pre)
              /\ tree[q].depth = pre[Ancestor(tree, q, n)].depth + n
              /\ tree[q].scale * Pow2(n) = pre[Ancestor(tree, q, n)].scale
              /\ ~tree[q].inside /\ ~tree[q].outside
        /\ FreshTree(pre) =>
              /\ Cardinality(Leaves(tree)) = Pow2(3 * n)
              /\ \A q \in Leaves(tree) :
                    tree[q].depth = n /\ tree[q].scale * Pow2(n) = root_scale

C6_Witness ==
    /\ lastOp.kind = "init" /\ lastOp.n = 2
    /\ FreshTree(pre)
    /\ Cardinality(Leaves(tree)) = 64

\* the child slots on the way from the root down to q
RECURSIVE NodePath(_, _)
NodePath(t, q) ==
    IF t[q].parent = Null THEN <<>>
    ELSE Append(NodePath(t, t[q].parent), t[q].idx)

\* a comes before b in a depth-first walk that takes the slots in rising order
PathBefore(a, b) ==
    \E i \in 1..Len(a) :
        /\ i <= Len(b)
        /\ \A j \in 1..(i - 1) : a[j] = b[j]
        /\ a[i] < b[i]

\* C7: get_leaf_nodes(start, out) keeps what out held and appends the nodes
\* without children reachable from start, each once, in depth-first order
\* by rising slot; the tree is unchanged; from the root the result is not empty
C7_LeafNodes ==
    lastOp.kind = "leaves" =>
        LET k == Len(lastOp.prior)
            added == SubSeq(nodelist, k + 1, Len(nodelist))
        IN  /\ Len(nodelist) >= k
            /\ SubSeq(nodelist, 1, k) = lastOp.prior
            /\ SeqToSet(added) =
                  {q \in Subtree(tree, lastOp.start) : tree[q].childcount = 0}
            /\ \A i, j \in 1..Len(added) :
                  i < j => PathBefore(NodePath(tree, added[i]), NodePath(tree, added[j]))
            /\ tree = pre
            /\ lastOp.start = Root => added # <<>>

C7_Witness ==
    /\ lastOp.kind = "leaves"
    /\ lastOp.start = Root
    /\ lastOp.prior = <<Root>>
    /\ tree[Root].childcount \in 1..7
    /\ \E p \in DOMAIN tree : tree[p].depth = 1 /\ tree[p].childcount \in 1..7
    /\ Len(nodelist) > 9

\* diff_negative is about to run on a node that has children
EntersInternal ==
    /\ stack # <<>> /\ failed = "none"
    /\ Top.pc = "enter"
    /\ tree[Top.node].childcount # 0

\* the loop of diff_negative over the children of an internal node runs on
InLoop == stack # <<>> /\ failed = "none" /\ Top.pc = "loop"

\* C8 as claimed: the visit of an internal node leaves its flags as they were
C8_InternalFlagsKept ==
    [][EntersInternal =>
         /\ tree'[Top.node].inside = tree[Top.node].inside
         /\ tree'[Top.node].outside = tree[Top.node].outside]_vars

\* C8 amended: the visit of an internal node overwrites the node's flags with
\* its classification against the volume and changes nothing else in the
\* heap; after that the visit only calls diff_negative on the existing
\* children whose box overlaps the volume's, each of them, in slot order
C8_InternalVisit ==
    [][/\ EntersInternal =>
            /\ tree' = [tree EXCEPT
                          ![Top.node].inside = CubeInside(tree[Top.node], vol),
                          ![Top.node].outside = CubeOutside(tree[Top.node], vol)]
            /\ stack' = SetTop([node |-> Top.node, pc |-> "loop", m |-> 0])
       /\ InLoop =>
            LET cur == Top.node
                due == {k \in Top.m..7 :
                          /\ tree[cur].child[k] # Null
                          /\ Overlaps(VolBB(vol), NodeBB(tree[tree[cur].child[k]]))}
            IN  /\ tree' = tree
                /\ due = {} => stack' = Pop
                /\ due # {} =>
                      \E k \in due :
                          /\ \A j \in due : k <= j
                          /\ Len(stack') = Len(stack) + 1
                          /\ stack'[Len(stack')] =
                                [node |-> tree[cur].child[k], pc |-> "enter", m |-> 0]
                          /\ stack'[Len(stack)] = [Top EXCEPT !.m = k + 1]]_vars

C8_Witness ==
    /\ stack # <<>>
    /\ Top.pc = "loop"
    /\ Top.m > 0
    /\ tree[Top.node].inside # pre[Top.node].inside
    /\ \E k \in Slots : tree[Top.node].child[k] # Null /\ ~Visits(tree, Top.node, k, vol)

\* C9: no node has inside and outside both set
C9_FlagsExclusive ==
    \A p \in DOMAIN tree : ~(tree[p].inside /\ tree[p].outside)

C9_Witness ==
    /\ DiffDone
    /\ \E p, q \in DOMAIN tree :
           /\ tree[p].inside /\ ~tree[p].outside
           /\ tree[q].outside /\ ~tree[q].inside
    /\ \E p \in DOMAIN tree : ~tree[p].inside /\ ~tree[p].outside

\* C10: a node whose last child is removed in a diff stays allocated and in
\* its parent's slot for the rest of the call, a leaf flagged inside unless
\* the assertion on it failed, and the step that removes its last child
\* leaves its own parent as it was
C10_StateAfterCollapse ==
    lastOp.kind = "diff" =>
        \A p \in collapsed :
            /\ p \in DOMAIN tree /\ p \notin freed
            /\ tree[p].childcount = 0
            /\ failed = "none" => (tree[p].inside /\ ~tree[p].outside)
            /\ tree[p].parent # Null =>
                  /\ tree[p].parent \in DOMAIN tree
                  /\ tree[tree[p].parent].child[tree[p].idx] = p
                  /\ tree[tree[p].parent].childcount >= 1

C10_OneLevelCollapse ==
    /\ []C10_StateAfterCollapse
    /\ [][\A p \in collapsed' \ collapsed :
              tree[p].parent # Null => tree'[tree[p].parent] = tree[tree[p].parent]]_vars

C10_Witness ==
    /\ DiffDone
    /\ \E p \in collapsed :
           /\ tree[p].parent # Null
           /\ tree[p].inside
           /\ p \in Leaves(tree)
           /\ pre[p].childcount = 8

EntersExhausted ==
    /\ stack # <<>> /\ failed = "none"
    /\ Top.pc = "enter"
    /\ tree[Top.node].childcount = 0
    /\ tree[Top.node].depth = max_depth
    /\ ~CubeInside(tree[Top.node], vol) /\ ~CubeOutside(tree[Top.node], vol)

C11_StateAfterExhausted ==
    lastOp.kind = "diff" =>
        \A e \in exhausted :
            LET p == e[1] IN
            /\ p \in DOMAIN tree /\ p \notin freed
            /\ tree[p].depth = max_depth =>
                  /\ tree[p].childcount = 0
                  /\ ~tree[p].inside /\ ~tree[p].outside
                  /\ tree[p].parent # Null =>
                        /\ tree[tree[p].parent].child[tree[p].idx] = p
                        /\ tree[tree[p].parent].childcount <= e[2]

StrDone == lastOp.kind = "str" /\ stack = <<>>

RECURSIVE SumOver(_, _)
SumOver(f, ds) ==
    IF ds = {} THEN 0
    ELSE LET d == CHOOSE x \in ds : TRUE IN f[d] + SumOver(f, ds \ {d})

\* C12: on every reachable tree str() returns, changes nothing, writes no
\* count outside its per-depth table, reports for every depth that a leaf
\* has the number of leaves of get_leaf_nodes(root) at that depth, and the
\* counts of the table sum to the total it reports
C12_DescribeReport ==
    StrDone =>
        /\ failed = "none"
        /\ tree = pre
        /\ result.oob = 0
        /\ result.total = Len(LeafSeq(tree, Root))
        /\ \A p \in Leaves(tree) :
              /\ tree[p].depth \in DOMAIN result.nodelevel
              /\ result.nodelevel[tree[p].depth] =
                    Cardinality({q \in Leaves(tree) : tree[q].depth = tree[p].depth})
        /\ SumOver(result.nodelevel, DOMAIN result.nodelevel) = result.total

\* leaf_scale() has returned
LeafScaleDone == lastOp.kind = "leaf_scale" /\ stack = <<>>

\* the nodes at depth max_depth, the deepest that diff_negative creates
FinestNodes == {p \in DOMAIN tree : tree[p].depth = max_depth}

\* C13 as claimed: leaf_scale() is the scale of a node at depth max_depth
C13_LeafScaleIsHalfWidth ==
    LeafScaleDone => \A p \in FinestNodes : result.scale = tree[p].scale

\* C13 amended: leaf_scale() is root_scale / 2^(max_depth-1), which is twice
\* the scale of a node at depth max_depth, the edge length of the cell and
\* not its half-width; it is the scale of the nodes one level higher
C13_LeafScaleIsWidth ==
    LeafScaleDone =>
        /\ result.scale * Pow2(max_depth - 1) = root_scale
        /\ \A p \in FinestNodes :
              /\ result.scale = 2 * tree[p].scale
              /\ result.scale = tree[tree[p].parent].scale
              /\ tree[p].scale * Pow2(max_depth) = root_scale

C13_Witness ==
    /\ LeafScaleDone
    /\ FinestNodes # {}
    /\ max_depth > 1

\* ---------------------------------------------- the order of the child loops
\* other orders for the loops of lines 156 and 166: slots 7 down to 0, and
\* slots in steps of three
ReverseOrder == [i \in 1..8 |-> 8 - i]
StrideOrder == [i \in 1..8 |-> (3 * i) % 8]
Orders == {<<ReverseOrder, ReverseOrder>>, <<StrideOrder, ReverseOrder>>,
           <<SlotOrder, StrideOrder>>}

\* run the diff_negative_root call that has just returned once more, on the
\* tree it started from, with the child loops in order o
Replay(o) ==
    /\ DiffDone
    /\ ref' = tree
    /\ tree' = pre
    /\ order' = o
    /\ stack' = <<[node |-> Root, pc |-> "enter", m |-> 0]>>
    /\ lastOp' = Op("replay", 0, Null, <<>>)
    /\ collapsed' = {}
    /\ exhausted' = {}
    /\ freed' = {}
    /\ UNCHANGED <<root_scale, max_depth, vol, failed, nodelist, ndiffs, pre, result>>

InitOrder == Init /\ tree[Root].center = <<0, 0, 0>>

NextOrder == Next \/ \E o \in Orders : Replay(o)

SpecOrder == InitOrder /\ [][NextOrder]_vars

ReplayDone == lastOp.kind = "replay" /\ stack = <<>> /\ failed = "none"

\* C14: a diff_negative_root call that returns leaves the same tree, node
\* for node with the same depths, flags, links and counts, and returns as
\* well, when the loops over the children take the slots in another order
C14_OrderIndependent ==
    lastOp.kind = "replay" =>
        /\ failed = "none"
        /\ stack = <<>> => tree = ref

C14_Witness ==
    /\ ReplayDone
    /\ order[1] # SlotOrder
    /\ tree = ref
    /\ collapsed # {}
    /\ exhausted # {}
    /\ \E p \in DOMAIN tree : p \notin DOMAIN pre
    /\ \E p \in DOMAIN pre : p \notin DOMAIN tree

\* ------------------------------------------------------- cells of the grid
\* a cell of the finest grid the model holds is the path of slots to it
Cells == [1..MaxNodeDepth -> Slots]

\* the cell c is removed in heap t: going down from node p at level i, the
\* path meets an empty slot (no leaf covers the cell) or a leaf flagged inside
RECURSIVE CellRemoved(_, _, _, _)
CellRemoved(t, p, c, i) ==
    IF t[p].childcount = 0 \/ i > MaxNodeDepth
    THEN t[p].inside
    ELSE IF t[p].child[c[i]] = Null
    THEN TRUE
    ELSE CellRemoved(t, t[p].child[c[i]], c, i + 1)

RemovedCells(t) == {c \in Cells : CellRemoved(t, Root, c, 1)}

\* C15: the cells removed before a diff_negative_root call are removed after it
C15_Monotone ==
    DiffDone => RemovedCells(pre) \subseteq RemovedCells(tree)

\* ------------------------------------------------------- released nodes
\* a diff_negative step releases a node
Releases == DOMAIN tree \ DOMAIN tree' # {} /\ stack # <<>>

\* every pointer the program can still follow is to an allocated node: the
\* child slots and parent links of allocated nodes, the frames of the
\* running calls, the nodes the last traversal returned. A call that an
\* assertion stopped after its delete runs no further and is left out
NoDanglingPointer ==
    /\ freed \cap DOMAIN tree = {}
    /\ Root \in DOMAIN tree
    /\ \A p \in DOMAIN tree :
          /\ \A m \in Slots : tree[p].child[m] # Null => tree[p].child[m] \in DOMAIN tree
          /\ tree[p].parent # Null => tree[p].parent \in DOMAIN tree
    /\ \A i \in 1..Len(stack) :
          (failed = "none" \/ i < Len(stack)) => stack[i].node \in DOMAIN tree
    /\ \A i \in 1..Len(nodelist) : nodelist[i] \in DOMAIN tree
    /\ Subtree(tree, Root) \cap freed = {}

\* C16: a released node is not reachable from the root, no running call of
\* diff_negative and no traversal holds or follows a pointer to it, and the
\* node a step releases is an allocated one that has not been released
\* before, the one the step is visiting
C16_NoUseAfterRelease ==
    /\ []NoDanglingPointer
    /\ [][Releases =>
             /\ DOMAIN tree \ DOMAIN tree' = {Top.node}
             /\ Top.node \notin freed
             /\ Top.node \in freed'
             /\ Top.node \notin Subtree(tree', Root)
             /\ failed' = "none" =>
                   \A i \in 1..Len(stack') : stack'[i].node # Top.node]_vars

C16_Witness ==
    /\ stack # <<>> /\ failed = "none"
    /\ Top.pc = "loop"
    /\ Top.m > 0
    /\ \E m \in Slots : ChildPtr(Top.node, m) \in freed
    /\ \E m \in Slots : m >= Top.m /\ Visits(tree, Top.node, m, vol)

\* ------------------------------------------------------- links
LinksConsistent ==
    /\ tree[Root].parent = Null
    /\ tree[Root].depth = 0
    /\ \A p \in DOMAIN tree \ {Root} :
          /\ tree[p].parent \in DOMAIN tree
          /\ tree[p].idx \in Slots
          /\ tree[tree[p].parent].child[tree[p].idx] = p
          /\ tree[p].depth = tree[tree[p].parent].depth + 1

\* C17: the root has no parent; every other node sits in slot idx of its
\* parent, with idx in 0..7, one level below it; and the removal step of
\* diff_negative clears the slot that holds the node it releases, and no
\* other slot
C17_LinkConsistency ==
    /\ []LinksConsistent
    /\ [][Releases =>
             LET cur == Top.node
                 par == tree[cur].parent
             IN  /\ tree[par].child[tree[cur].idx] = cur
                 /\ DOMAIN tree' = DOMAIN tree \ {cur}
                 /\ tree'[par].child = [tree[par].child EXCEPT ![tree[cur].idx] = Null]
                 /\ \A q \in DOMAIN tree' \ {par} : tree'[q].child = tree[q].child]_vars

C17_Witness ==
    /\ DiffDone
    /\ \E p \in DOMAIN tree \ {Root} :
          /\ tree[p].depth = 2
          /\ \E m \in Slots : tree[tree[p].parent].child[m] = Null
          /\ \E m \in Slots : tree[Root].child[m] = Null

====
